---- MODULE Spec2Model ----
(***************************************************************************)
(* Payment creation and refund workflows of gocommerce (api/payments.go)   *)
(* over the order/transaction ledger.  The committed contents of the       *)
(* relational store are the variables orders, transactions and hooks; each *)
(* request in flight owns a slot holding the handler's local variables and *)
(* the writes of its open persistence transaction.  Writes become visible  *)
(* at Commit; an UPDATE of an order row holds that row's lock until the    *)
(* transaction ends (row-locking store, READ COMMITTED).  The variable     *)
(* last is the response written by the step just taken; mailer holds the   *)
(* mail goroutines not yet run and the payments whose mail error was       *)
(* logged.                                                                 *)
(***************************************************************************)
EXTENDS Integers, Sequences, FiniteSets, TLC

VARIABLES orders, transactions, hooks, provider, rowLock, slots, last,
          nextID, nreq, config, mailer

vars == <<orders, transactions, hooks, provider, rowLock, slots, last,
          nextID, nreq, config, mailer>>

(***************************************************************************)
(* Bounds of the model.                                                    *)
(***************************************************************************)
MaxRequests == 2
MaxInFlight == 2
OrderTotal == 2

Slots == 1..MaxInFlight
Amounts == 0..(OrderTotal + 1)
Currencies == {"USD", "EUR"}
OrderIDs == {"o1", "o2", "o3"}
MissingOrder == "missing"

(***************************************************************************)
(* models: state names and transaction types.                              *)
(***************************************************************************)
PendingState == "pending"
PaidState == "paid"
FailedState == "failed"
ChargeTransactionType == "charge"
RefundTransactionType == "refund"

StripeChargerType == "stripe"
PaypalChargerType == "paypal"
NoChargerType == ""

AdminGroupName == "admin"
PaymentHookURL == "http://hooks/payment"
RefundHookURL == "http://hooks/refund"

NoRef == <<>>
NoTransaction ==
  [ID |-> 0, OrderID |-> "", UserID |-> "", Amount |-> 0, Currency |-> "",
   Type |-> "", Status |-> "", ProcessorID |-> NoRef, FailureCode |-> "",
   FailureDescription |-> ""]
NoOrder ==
  [ID |-> "", UserID |-> "", Total |-> 0, Currency |-> "",
   PaymentState |-> "", PaymentProcessor |-> "", BillingAddressID |-> ""]
NoParams ==
  [Amount |-> 0, Currency |-> "", StripeToken |-> "", PaypalID |-> "",
   PaypalUserID |-> ""]
NoToken == [present |-> FALSE, ID |-> "", Groups |-> {}]
NoTx == [begun |-> FALSE, orderSaved |-> FALSE, order |-> NoOrder,
         trans |-> <<>>, hooks |-> <<>>]

(***************************************************************************)
(* Requests: the decoded JSON body and the identity of the caller.         *)
(***************************************************************************)
PaymentParams ==
  [Amount : Amounts, Currency : Currencies, StripeToken : {"", "tok"},
   PaypalID : {"", "PAY-1"}, PaypalUserID : {"", "payer"}]

\* the body of a refund request: the credential fields are not read
RefundParams ==
  {p \in PaymentParams :
     p.StripeToken = "" /\ p.PaypalID = "" /\ p.PaypalUserID = ""}

Tokens ==
  {NoToken,
   [present |-> TRUE, ID |-> "u1", Groups |-> {}],
   [present |-> TRUE, ID |-> "adm", Groups |-> {AdminGroupName}]}

\* the admin flag set for every identity that is in some group
isAdminAnyGroup(token) ==
  token.present /\ token.Groups # {}

\* withToken: the admin flag of the request context
isAdmin(token) ==
  token.present /\ \E g \in token.Groups : g = AdminGroupName

\* HTTP error helpers
HTTPError(code, msg) == [code |-> code, msg |-> msg]
badRequestError(msg) == HTTPError(400, msg)
unauthorizedError(msg) == HTTPError(401, msg)
notFoundError(msg) == HTTPError(404, msg)
internalServerError(msg) == HTTPError(500, msg)
OKResponse == HTTPError(200, "")
NoError == HTTPError(0, "")

\* the local variables of a handler
Idle ==
  [pc |-> "idle", kind |-> "", params |-> NoParams, order |-> NoOrder,
   tx |-> NoTx, tr |-> NoTransaction, src |-> NoTransaction,
   chType |-> NoChargerType, paymentToken |-> "", paymentUser |-> "",
   processorID |-> NoRef, err |-> "", resp |-> NoError]

NoResponse ==
  [kind |-> "", code |-> 0, msg |-> "", tr |-> NoTransaction, called |-> FALSE,
   begun |-> FALSE, saved |-> FALSE, caller |-> NoToken, target |-> "",
   rows |-> {}, read |-> FALSE]

\* the response of a handler: status, message, and the transaction it sends
\* (on a charge failure: the transaction it committed); called tells whether
\* the handler called a provider, begun whether it had begun a persistence
\* transaction, saved whether a rolled back transaction held a saved order.
\* The answer of a read-only endpoint carries the identity of the caller, the
\* resource asked for, the ids of the transactions sent, and whether the
\* handler queried the store.
Response(kind, err, tr, called, begun) ==
  [kind |-> kind, code |-> err.code, msg |-> err.msg, tr |-> tr,
   called |-> called, begun |-> begun, saved |-> FALSE, caller |-> NoToken,
   target |-> "", rows |-> {}, read |-> FALSE]

(***************************************************************************)
(* The persistence layer.                                                  *)
(***************************************************************************)
\* a.db.Begin()
Begin == [NoTx EXCEPT !.begun = TRUE]

\* tx.Save(order): UPDATE of every column of the order row
TxSaveOrder(tx, order) == [tx EXCEPT !.orderSaved = TRUE, !.order = order]

\* tx.Create(tr): INSERT of a transaction row
TxCreate(tx, tr) == [tx EXCEPT !.trans = Append(@, tr)]

\* tx.Save(m) of a row created in the same transaction
TxSaveTransaction(tx, m) ==
  [tx EXCEPT !.trans = [i \in DOMAIN @ |-> IF @[i].ID = m.ID THEN m ELSE @[i]]]

\* tx.Save(hook)
TxSaveHook(tx, hook) == [tx EXCEPT !.hooks = Append(@, hook)]

\* tx.Commit(): the writes of the transaction become the committed state
CommittedOrders(tx) ==
  IF tx.orderSaved THEN [orders EXCEPT ![tx.order.ID] = tx.order] ELSE orders

CommittedTransactions(tx) == transactions \o tx.trans

CommittedHooks(tx) == hooks \o tx.hooks

\* the lock of every order row written by slot `i` is released when its
\* transaction ends
Released(i) == [o \in OrderIDs |-> IF rowLock[o] = i THEN 0 ELSE rowLock[o]]

\* a.db.First(trans) with the primary key set
FindTransaction(payID) ==
  IF \E i \in DOMAIN transactions : transactions[i].ID = payID
    THEN transactions[CHOOSE i \in DOMAIN transactions :
                        transactions[i].ID = payID]
    ELSE NoTransaction

(***************************************************************************)
(* Charge providers.                                                       *)
(***************************************************************************)
\* fmt.Sprintf("%.2f", float64(amount)/100): whole part, point, two digits
FormatAmount(amount) ==
  <<amount \div 100, ".", (amount % 100) \div 10, amount % 10>>

\* what the wallet gateway may answer for a payment id
PaypalPayments ==
  [getErr : BOOLEAN, ntrans : 0..2, hasAmount : BOOLEAN,
   Total : {FormatAmount(a) : a \in {OrderTotal, OrderTotal + 1}},
   Currency : Currencies, executeErr : BOOLEAN]

\* what the card gateway may answer: no error, or the error
StripeAnswers == {"", "card_declined"}

\* stripeProvider.charge / stripeProvider.refund: the reference, or the error
stripeCall(answer, ref) ==
  IF answer # "" THEN [id |-> NoRef, err |-> answer]
  ELSE [id |-> ref, err |-> ""]

\* what paypalProvider.charge returns: the reference or the error, and the
\* calls it made to the gateway
PaypalResult(id, err, calls) == [id |-> id, err |-> err, calls |-> calls]

\* paypalProvider.charge that accepts a payment with several transactions
paypalChargeFirstItem(payment, amount, currency, ref) ==
  IF payment.getErr
    THEN PaypalResult(NoRef, "paypal: get payment", <<"GetPayment">>)
  ELSE IF payment.ntrans < 1
    THEN PaypalResult(NoRef, "The paypal payment must have exactly 1 transaction",
                      <<"GetPayment">>)
  ELSE IF ~payment.hasAmount
    THEN PaypalResult(NoRef, "No amount in this transaction", <<"GetPayment">>)
  ELSE IF FormatAmount(amount) # payment.Total \/ payment.Currency # currency
    THEN PaypalResult(NoRef, "The Amount in the transaction doesn't match the amount for the order",
                      <<"GetPayment">>)
  ELSE IF payment.executeErr
    THEN PaypalResult(NoRef, "paypal: execute payment",
                      <<"GetPayment", "ExecuteApprovedPayment">>)
  ELSE PaypalResult(ref, "", <<"GetPayment", "ExecuteApprovedPayment">>)

\* paypalProvider.charge
paypalCharge(payment, amount, currency, ref) ==
  IF payment.getErr
    THEN PaypalResult(NoRef, "paypal: get payment", <<"GetPayment">>)
  ELSE IF payment.ntrans # 1
    THEN PaypalResult(NoRef, "The paypal payment must have exactly 1 transaction",
                      <<"GetPayment">>)
  ELSE IF ~payment.hasAmount
    THEN PaypalResult(NoRef, "No amount in this transaction", <<"GetPayment">>)
  ELSE IF FormatAmount(amount) # payment.Total \/ payment.Currency # currency
    THEN PaypalResult(NoRef, "The Amount in the transaction doesn't match the amount for the order",
                      <<"GetPayment">>)
  ELSE IF payment.executeErr
    THEN PaypalResult(NoRef, "paypal: execute payment",
                      <<"GetPayment", "ExecuteApprovedPayment">>)
  ELSE PaypalResult(ref, "", <<"GetPayment", "ExecuteApprovedPayment">>)

\* one call of a provider, as the gateway saw it: id is the charge a refund
\* names, order the order the calling request is about
ProviderCall(op, chType, order, amount, currency, id, res) ==
  [op |-> op, chType |-> chType, order |-> order, amount |-> amount,
   currency |-> currency, id |-> id, ok |-> (res.err = ""), ref |-> res.id]

\* the reference the gateway gives to its next object
NextRef == <<"ref", Len(provider) + 1>>

(***************************************************************************)
(* models.NewTransaction, models.NewHook                                   *)
(***************************************************************************)
NewTransaction(order, id) ==
  [ID |-> id, OrderID |-> order.ID, UserID |-> order.UserID,
   Amount |-> order.Total, Currency |-> order.Currency,
   Type |-> ChargeTransactionType, Status |-> PendingState,
   ProcessorID |-> NoRef, FailureCode |-> "", FailureDescription |-> ""]

NewHook(event, url, userID, orderID, transID) ==
  [Event |-> event, URL |-> url, UserID |-> userID, OrderID |-> orderID,
   TransactionID |-> transID]

(***************************************************************************)
(* Initial state: the store as the checkout flow and earlier payments left *)
(* it.  Order o1 awaits payment (anonymous, or owned by u1); orders o2 and *)
(* o3 were paid by u1, by card and through the wallet, and carry their     *)
(* paid charges.                                                           *)
(***************************************************************************)
\* the wallet provider is configured or not; the webhook targets are all
\* configured or all left empty
Configs ==
  [paypal : BOOLEAN,
   Webhooks : {[Payment |-> "", Refund |-> ""],
               [Payment |-> PaymentHookURL, Refund |-> RefundHookURL]}]

SeedOrder(id, owner, state, processor) ==
  [ID |-> id, UserID |-> owner, Total |-> OrderTotal, Currency |-> "USD",
   PaymentState |-> state, PaymentProcessor |-> processor,
   BillingAddressID |-> "addr1"]

SeedCharge(order, id) ==
  [NewTransaction(order, id) EXCEPT !.Status = PaidState,
                                    !.ProcessorID = <<"seed", id>>]

Init ==
  /\ config \in Configs
  /\ \E owner \in {"", "u1"} :
       orders =
         [o \in OrderIDs |->
            IF o = "o1" THEN SeedOrder(o, owner, PendingState, "")
            ELSE IF o = "o2" THEN SeedOrder(o, "u1", PaidState, "stripe")
            ELSE SeedOrder(o, "u1", PaidState, "paypal")]
  /\ transactions = <<SeedCharge(SeedOrder("o2", "u1", PaidState, "stripe"), 1),
                      SeedCharge(SeedOrder("o3", "u1", PaidState, "paypal"), 2)>>
  /\ hooks = <<>>
  /\ provider = <<>>
  /\ rowLock = [o \in OrderIDs |-> 0]
  /\ slots = [i \in Slots |-> Idle]
  /\ last = NoResponse
  /\ nextID = Len(transactions) + 1
  /\ nreq = 0
  /\ mailer = [queue |-> {}, errors |-> {}]

(***************************************************************************)
(* Ends of a handler.                                                      *)
(***************************************************************************)
\* an early return that commits where it should roll back
RejectCommitting(i, s) ==
  /\ slots' = [slots EXCEPT ![i] = Idle]
  /\ last' = [Response(s.kind, s.resp, NoTransaction, FALSE, s.tx.begun)
                  EXCEPT !.saved = s.tx.orderSaved]
  /\ rowLock' = Released(i)
  /\ orders' = CommittedOrders(s.tx)
  /\ UNCHANGED <<transactions, hooks, provider, nextID, mailer>>

\* an early return with the locals `s`: tx.Rollback() where a transaction is
\* open, then the error
Reject(i, s) ==
  /\ slots' = [slots EXCEPT ![i] = Idle]
  /\ last' = [Response(s.kind, s.resp, NoTransaction, FALSE, s.tx.begun)
                  EXCEPT !.saved = s.tx.orderSaved]
  /\ rowLock' = Released(i)
  /\ UNCHANGED <<orders, transactions, hooks, provider, nextID, mailer>>

\* tx.Commit() followed by the response
Commit(i, s, err, tr) ==
  /\ orders' = CommittedOrders(s.tx)
  /\ transactions' = CommittedTransactions(s.tx)
  /\ hooks' = CommittedHooks(s.tx)
  /\ rowLock' = Released(i)
  /\ slots' = [slots EXCEPT ![i] = Idle]
  /\ last' = Response(s.kind, err, tr, TRUE, s.tx.begun)
  /\ UNCHANGED <<provider, nextID>>

\* a step inside a handler: it goes on with the locals `s`
Continue(i, s) ==
  /\ slots' = [slots EXCEPT ![i] = s]
  /\ last' = NoResponse

(***************************************************************************)
(* PaymentCreate: POST /orders/:order_id/payments                          *)
(***************************************************************************)
\* the credentials check that asks for the wallet payment id alone
CredentialsErrorWithoutPayer(params) ==
  IF params.StripeToken = "" /\ ~config.paypal
    THEN "Payments requires a stripe_token"
  ELSE IF params.StripeToken = "" /\ params.PaypalID = ""
    THEN "Payments requires a stripe_token or a paypal_payment_id and paypal_user_id pair"
  ELSE ""

\* the credentials check on the decoded body; "" when it passes
CredentialsError(params) ==
  IF params.StripeToken = ""
    THEN IF ~config.paypal
           THEN "Payments requires a stripe_token"
         ELSE IF params.PaypalID = "" \/ params.PaypalUserID = ""
           THEN "Payments requires a stripe_token or a paypal_payment_id and paypal_user_id pair"
         ELSE ""
    ELSE ""

\* the paid check left out
AlreadyPaidIgnored(order) == FALSE

AlreadyPaid(order) == order.PaymentState = PaidState

\* the currency check left out
CurrencyMismatchIgnored(order, params) == FALSE

CurrencyMismatch(order, params) == order.Currency # params.Currency

\* the ownership check that admits every authenticated caller
NotOwnerUnlessIdentified(order, token) ==
  order.UserID # "" /\ ~token.present

\* the order has an owner and the caller is not that owner
NotOwner(order, token) ==
  order.UserID # "" /\ (~token.present \/ order.UserID # token.ID)

\* verifyAmount that lets every amount through
verifyAmountSkipped(order, amount) == FALSE

\* verifyAmount: TRUE when it returns an error
verifyAmount(order, amount) == order.Total # amount

\* the choice of the charger that prefers the wallet fields to the card token
ChargerForWalletFirst(params) ==
  IF config.paypal /\ params.PaypalID # ""
    THEN [chType |-> PaypalChargerType, paymentToken |-> params.PaypalID,
          paymentUser |-> params.PaypalUserID, processor |-> "paypal"]
  ELSE IF params.StripeToken # ""
    THEN [chType |-> StripeChargerType, paymentToken |-> params.StripeToken,
          paymentUser |-> "", processor |-> "stripe"]
  ELSE [chType |-> NoChargerType, paymentToken |-> "", paymentUser |-> "",
        processor |-> ""]

\* the choice of the charger from the credentials of the request
ChargerFor(params) ==
  IF params.StripeToken # ""
    THEN [chType |-> StripeChargerType, paymentToken |-> params.StripeToken,
          paymentUser |-> "", processor |-> "stripe"]
  ELSE IF config.paypal /\ params.PaypalID # ""
    THEN [chType |-> PaypalChargerType, paymentToken |-> params.PaypalID,
          paymentUser |-> params.PaypalUserID, processor |-> "paypal"]
  ELSE [chType |-> NoChargerType, paymentToken |-> "", paymentUser |-> "",
        processor |-> ""]

\* the credential fields are not read again once the charger is chosen
AfterSelection(params) ==
  [params EXCEPT !.StripeToken = "", !.PaypalID = "", !.PaypalUserID = ""]

\* from verifyAmount to the point where the charger is about to be called:
\* the handler returns an error (pc "reject") or holds the transaction record
\* of the attempt and the charger to call (pc "charge")
Verify(s) ==
  IF verifyAmount(s.order, s.params.Amount)
    THEN [Idle EXCEPT !.pc = "reject", !.kind = "create", !.tx = s.tx,
                      !.resp = internalServerError("We failed to authorize the amount for this order")]
    ELSE LET ch == ChargerFor(s.params) IN
         [s EXCEPT !.pc = "charge",
                   !.params = AfterSelection(s.params),
                   !.tr = NewTransaction(s.order, nextID),
                   !.chType = ch.chType,
                   !.paymentToken = ch.paymentToken,
                   !.paymentUser = ch.paymentUser,
                   !.order.PaymentProcessor = ch.processor]

\* the handler from decoding to its first return or wait: it returns an
\* error (pc "reject"), is about to save the order it claimed (pc "claim"),
\* or is about to call the charger (pc "charge")
CreateBegin(params, token, orderID) ==
  LET rejected(err, tx) ==
        [Idle EXCEPT !.pc = "reject", !.kind = "create", !.resp = err, !.tx = tx]
  IN
  IF CredentialsError(params) # ""
    THEN rejected(badRequestError(CredentialsError(params)), NoTx)
  ELSE IF orderID \notin OrderIDs
    THEN rejected(notFoundError("No order with this ID found"), Begin)
  ELSE LET order == orders[orderID]
           s == [Idle EXCEPT !.kind = "create", !.params = params,
                             !.tx = Begin, !.order = order] IN
    IF AlreadyPaid(order)
      THEN rejected(badRequestError("This order has already been paid"), Begin)
    ELSE IF CurrencyMismatch(order, params)
      THEN rejected(badRequestError("Currencies doesn't match"), Begin)
    ELSE IF order.UserID = "" /\ token.present
      THEN [s EXCEPT !.pc = "claim", !.order.UserID = token.ID]
    ELSE IF NotOwner(order, token)
      THEN rejected(unauthorizedError("You must be logged in to pay for this order"), Begin)
    ELSE Verify(s)

\* the handler from tx.Save(order) of the claimed order on
CreateClaim(s) == Verify([s EXCEPT !.tx = TxSaveOrder(s.tx, s.order)])

\* threads are interchangeable: a request takes the first idle one
FirstIdle(i) ==
  /\ slots[i].pc = "idle"
  /\ \A j \in Slots : j < i => slots[j].pc # "idle"

\* the handler returns the error of `s`, or goes on with the locals `s`,
\* holding the row locks `lock`
Proceed(i, s, lock) ==
  IF s.pc = "reject"
    THEN Reject(i, s) /\ UNCHANGED nreq
    ELSE /\ Continue(i, s)
         /\ nextID' = IF s.tr.ID = nextID THEN nextID + 1 ELSE nextID
         /\ nreq' = IF slots[i].pc = "idle" THEN nreq + 1 ELSE nreq
         /\ rowLock' = lock
         /\ UNCHANGED <<orders, transactions, hooks, provider, mailer>>

\* a request arrives and runs to its first return or wait
PaymentCreateBegin(i) ==
  /\ FirstIdle(i)
  /\ nreq < MaxRequests
  /\ \E s \in {CreateBegin(params, token, orderID) :
                 params \in PaymentParams, token \in Tokens,
                 orderID \in OrderIDs \cup {MissingOrder}} :
       Proceed(i, s, rowLock)
  /\ UNCHANGED config

\* tx.Save(order) of the claimed order, which waits for the lock of the
\* order row, and on to the next return or wait
PaymentCreateClaim(i) ==
  /\ slots[i].pc = "claim"
  /\ rowLock[slots[i].order.ID] \in {0, i}
  /\ Proceed(i, CreateClaim(slots[i]), [rowLock EXCEPT ![slots[i].order.ID] = i])
  /\ UNCHANGED config

\* getCharger(ctx, chType).charge(...)
PaymentCreateCharge(i) ==
  /\ slots[i].pc = "charge"
  /\ LET s == slots[i] IN
     \E res \in
         IF s.chType = StripeChargerType
           THEN {stripeCall(a, NextRef) : a \in StripeAnswers}
         ELSE IF s.chType = PaypalChargerType
           THEN {paypalCharge(p, s.params.Amount, s.params.Currency, NextRef) :
                   p \in PaypalPayments}
         ELSE {} :
       /\ provider' = Append(provider,
            ProviderCall("charge", s.chType, s.order.ID, s.params.Amount,
                         s.params.Currency, NoRef, res))
       /\ Continue(i, [s EXCEPT !.pc = "record", !.processorID = res.id,
                                !.err = res.err])
  /\ UNCHANGED <<orders, transactions, hooks, rowLock, nextID, nreq, config,
                 mailer>>

\* the record of the attempt with the failure not written to it
ChargeRecordUnmarked(tr, processorID, err) ==
  [tr EXCEPT !.ProcessorID = processorID, !.Status = "pending"]

\* the record of the attempt without the reference of the charge
ChargeRecordWithoutReference(tr, processorID, err) ==
  IF err # ""
    THEN [tr EXCEPT !.FailureCode = "500", !.FailureDescription = err,
                    !.Status = "failed"]
    ELSE [tr EXCEPT !.Status = "pending"]

\* the transaction record of the attempt, as tx.Create(tr) inserts it
ChargeRecord(tr, processorID, err) ==
  IF err # ""
    THEN [tr EXCEPT !.ProcessorID = processorID, !.FailureCode = "500",
                    !.FailureDescription = err, !.Status = "failed"]
    ELSE [tr EXCEPT !.ProcessorID = processorID, !.Status = "pending"]

\* the paid state not written to the order
MarkPaidForgotten(order) == order

\* order.PaymentState = models.PaidState
MarkPaid(order) == [order EXCEPT !.PaymentState = PaidState]

\* go func() { OrderConfirmationMail(tr); OrderReceivedMail(tr) }()
StartMails(tr) == [mailer EXCEPT !.queue = @ \cup {tr.ID}]

\* from the return of the charger to the response; the UPDATE of the order
\* row waits for its lock
PaymentCreateFinish(i) ==
  /\ slots[i].pc = "record"
  /\ slots[i].kind = "create"
  /\ LET s == slots[i]
         tr == ChargeRecord(s.tr, s.processorID, s.err)
         tx1 == TxCreate(s.tx, tr) IN
       IF s.err # ""
         THEN /\ Commit(i, [s EXCEPT !.tx = tx1],
                        internalServerError("There was an error charging your card"), tr)
              /\ UNCHANGED mailer
         ELSE /\ rowLock[s.order.ID] \in {0, i}
              /\ mailer' = StartMails(tr)
              /\ LET order == MarkPaid(s.order)
                     tx2 == TxSaveOrder(tx1, order)
                     tx3 == IF config.Webhooks.Payment # ""
                              THEN TxSaveHook(tx2,
                                     NewHook("payment", config.Webhooks.Payment,
                                             order.UserID, order.ID, 0))
                              ELSE tx2 IN
                   Commit(i, [s EXCEPT !.tx = tx3], OKResponse, tr)
  /\ UNCHANGED <<nreq, config>>

(***************************************************************************)
(* PaymentRefund: POST /payments/:pay_id/refund                            *)
(***************************************************************************)
\* requireAdmin that lets every caller through
requireAdminSkipped(token) == FALSE

\* requireAdmin: TRUE when it returns an error
requireAdmin(token) == ~isAdmin(token)

\* the amount check of a refund without its upper limit
RefundAmountUnlimited(params, trans) == params.Amount < 0

\* the amount check of a refund: TRUE when the amount is refused
RefundAmountRefused(params, trans) ==
  params.Amount <= 0 \/ params.Amount > trans.Amount

\* the status check of a refund left out
TransactionNotPaidIgnored(trans) == FALSE

\* the status check of a refund: TRUE when the source is refused
TransactionNotPaid(trans) == trans.Status # PaidState

\* the processor check of a refund left out
PaypalOrderIgnored(order) == FALSE

\* the processor check of a refund: TRUE when the order is refused
PaypalOrder(order) == order.PaymentProcessor = "paypal"

\* queryForOrder
OrderFound(orderID) == orderID \in OrderIDs

\* the refund transaction built for the whole amount of its source
RefundTransactionInFull(params, trans, id) ==
  [ID |-> id, OrderID |-> trans.OrderID, UserID |-> trans.UserID,
   Amount |-> trans.Amount, Currency |-> params.Currency,
   Type |-> RefundTransactionType, Status |-> PendingState,
   ProcessorID |-> NoRef, FailureCode |-> "", FailureDescription |-> ""]

\* the refund transaction the handler builds
RefundTransaction(params, trans, id) ==
  [ID |-> id, OrderID |-> trans.OrderID, UserID |-> trans.UserID,
   Amount |-> params.Amount, Currency |-> params.Currency,
   Type |-> RefundTransactionType, Status |-> PendingState,
   ProcessorID |-> NoRef, FailureCode |-> "", FailureDescription |-> ""]

\* the handler from decoding to the creation of the refund transaction: it
\* returns an error (pc "reject") or is about to call the provider
RefundBegin(params, token, payID) ==
  LET rejected(err) == [Idle EXCEPT !.pc = "reject", !.kind = "refund", !.resp = err]
      trans == FindTransaction(payID)
  IN
  IF requireAdmin(token)
    THEN rejected(HTTPError(401, "Can only access payments as admin"))
  ELSE IF trans.ID # payID \/ trans = NoTransaction
    THEN rejected(HTTPError(404, "Transaction not found"))
  ELSE IF trans.Currency # params.Currency
    THEN rejected(badRequestError("Currencies doesn't match"))
  ELSE IF RefundAmountRefused(params, trans)
    THEN rejected(badRequestError("The balance of the refund must be between 0 and the total amount"))
  ELSE IF trans.FailureCode # ""
    THEN rejected(badRequestError("Can't refund a failed transaction"))
  ELSE IF TransactionNotPaid(trans)
    THEN rejected(badRequestError("Can't refund a transaction that hasn't been paid"))
  ELSE IF ~OrderFound(trans.OrderID)
    THEN rejected(HTTPError(404, "Order not found"))
  ELSE IF PaypalOrder(orders[trans.OrderID])
    THEN rejected(badRequestError("Can't refund a paypal transaction"))
  ELSE LET m == RefundTransaction(params, trans, nextID) IN
       [Idle EXCEPT !.pc = "refund", !.kind = "refund", !.params = params,
                    !.src = trans, !.order = orders[trans.OrderID],
                    !.tr = m, !.tx = TxCreate(Begin, m),
                    !.chType = StripeChargerType]

\* a refund request arrives and runs to its first return or to the provider
PaymentRefundBegin(i) ==
  /\ FirstIdle(i)
  /\ nreq < MaxRequests
  /\ \E s \in {RefundBegin(params, token, payID) :
                 params \in RefundParams, token \in Tokens,
                 payID \in 0..(nextID - 1)} :
       Proceed(i, s, rowLock)
  /\ UNCHANGED config

\* getCharger(ctx, StripeChargerType).refund(params.Amount, trans.ProcessorID)
PaymentRefundCall(i) ==
  /\ slots[i].pc = "refund"
  /\ LET s == slots[i] IN
     \E a \in StripeAnswers :
       LET res == stripeCall(a, NextRef) IN
       /\ provider' = Append(provider,
            ProviderCall("refund", s.chType, s.src.OrderID, s.params.Amount,
                         s.params.Currency, s.src.ProcessorID, res))
       /\ Continue(i, [s EXCEPT !.pc = "record", !.processorID = res.id,
                                !.err = res.err])
  /\ UNCHANGED <<orders, transactions, hooks, rowLock, nextID, nreq, config,
                 mailer>>

\* the refund transaction saved without its outcome
RefundRecordUnmarked(m, stripeID, err) == m

\* the refund transaction as the handler saves it after the provider call
RefundRecord(m, stripeID, err) ==
  IF err # ""
    THEN [m EXCEPT !.FailureCode = "500", !.FailureDescription = err,
                   !.Status = FailedState]
    ELSE [m EXCEPT !.ProcessorID = stripeID, !.Status = PaidState]

\* from the return of the provider to the response
PaymentRefundFinish(i) ==
  /\ slots[i].pc = "record"
  /\ slots[i].kind = "refund"
  /\ LET s == slots[i]
         m == RefundRecord(s.tr, s.processorID, s.err)
         tx1 == TxSaveTransaction(s.tx, m)
         tx2 == IF config.Webhooks.Refund # ""
                  THEN TxSaveHook(tx1, NewHook("refund", config.Webhooks.Refund,
                                               m.UserID, "", m.ID))
                  ELSE tx1 IN
       Commit(i, [s EXCEPT !.tx = tx2], OKResponse, m)
  /\ UNCHANGED <<nreq, config, mailer>>

(***************************************************************************)
(* The mail goroutine of a payment.                                        *)
(***************************************************************************)
\* a mail goroutine that takes the payment back when a mail fails
OrderMailsUndoing(id) ==
  /\ id \in mailer.queue
  /\ \E err1, err2 \in BOOLEAN :
       /\ mailer' = [queue |-> mailer.queue \ {id},
                     errors |-> IF err1 \/ err2 THEN mailer.errors \cup {id}
                                ELSE mailer.errors]
       /\ transactions' =
            IF err1 \/ err2
              THEN SelectSeq(transactions, LAMBDA t : t.ID # id)
              ELSE transactions
  /\ last' = NoResponse
  /\ UNCHANGED <<orders, hooks, provider, rowLock, slots, nextID, nreq, config>>

\* the goroutine of payment `id` runs: each of the two mails is sent or
\* fails, and a failure of either is logged
OrderMails(id) ==
  /\ id \in mailer.queue
  /\ \E err1, err2 \in BOOLEAN :
       mailer' = [queue |-> mailer.queue \ {id},
                  errors |-> IF err1 \/ err2 THEN mailer.errors \cup {id}
                             ELSE mailer.errors]
  /\ last' = NoResponse
  /\ UNCHANGED <<orders, transactions, hooks, provider, rowLock, slots, nextID,
                 nreq, config>>

(***************************************************************************)
(* The system: requests arrive and are handled on their own threads.       *)
(***************************************************************************)
Next ==
  \/ \E i \in Slots :
       \/ PaymentCreateBegin(i)
       \/ PaymentCreateClaim(i)
       \/ PaymentCreateCharge(i)
       \/ PaymentCreateFinish(i)
       \/ PaymentRefundBegin(i)
       \/ PaymentRefundCall(i)
       \/ PaymentRefundFinish(i)
  \/ \E id \in mailer.queue : OrderMails(id)

Spec == Init /\ [][Next]_vars

(***************************************************************************)
(* A crash of the process.  The threads of its requests and of its mails   *)
(* are gone; the database rolls back the transactions they had open and    *)
(* releases their locks; what was committed and what the providers did     *)
(* stays.                                                                  *)
(***************************************************************************)
Crash ==
  /\ \E i \in Slots : slots[i].pc # "idle"
  /\ slots' = [i \in Slots |-> Idle]
  /\ rowLock' = [o \in OrderIDs |-> 0]
  /\ mailer' = [mailer EXCEPT !.queue = {}]
  /\ last' = NoResponse
  /\ UNCHANGED <<orders, transactions, hooks, provider, nextID, nreq, config>>

CrashNext == Next \/ Crash

CrashSpec == Init /\ [][CrashNext]_vars

(***************************************************************************)
(* The handlers with the requests taken one at a time: a request arrives   *)
(* only when the one before it has been answered.                          *)
(***************************************************************************)
AtMostOneBusy ==
  \A i, j \in Slots :
    (slots[i].pc # "idle" /\ slots[j].pc # "idle") => i = j

SerialNext == Next /\ AtMostOneBusy'

SerialSpec == Init /\ [][SerialNext]_vars

(***************************************************************************)
(* Authentication and the read-only endpoints.                             *)
(***************************************************************************)
\* the identities a token may carry
Identities ==
  {[ID |-> "u1", Groups |-> {}],
   [ID |-> "adm", Groups |-> {AdminGroupName}],
   [ID |-> "u2", Groups |-> {"staff"}]}

UserIDs == {c.ID : c \in Identities}

\* the Authorization header of a request: absent (""), not a bearer token,
\* or a bearer token with its signing method, whether its signature
\* verifies, its expiry and its claims
Headers ==
  [auth : {"", "Basic", "Bearer"}, alg : {"HS256", "none"}, signed : BOOLEAN,
   exp : {"future", "past", "unset"}, claims : Identities]

\* the middleware went on to the handler with the identity `token`
Passed(token) == [halted |-> FALSE, resp |-> NoError, token |-> token]

\* the middleware answered and returned a nil context
Halted(err) == [halted |-> TRUE, resp |-> err, token |-> NoToken]

\* API.withToken
withToken(h) ==
  IF h.auth = "" THEN Passed(NoToken)
  ELSE IF h.auth # "Bearer"
    THEN Halted(unauthorizedError("Bad authentication header"))
  ELSE IF h.alg # "HS256" \/ ~h.signed \/ h.exp = "past"
    THEN Halted(unauthorizedError("Invalid token"))
  ELSE IF h.exp = "unset"
    THEN Halted(unauthorizedError("Token expired"))
  ELSE Passed([present |-> TRUE, ID |-> h.claims.ID, Groups |-> h.claims.Groups])

\* what a read-only handler answers: the status, the ids of the transactions
\* it sends, and whether it queried the store
Answer(resp, rows, read) == [resp |-> resp, rows |-> rows, read |-> read]

\* initEndpoint that never asks for an identity
initEndpointOpen(token, authRequired) == NoError

\* initEndpoint: the error, or NoError
initEndpoint(token, authRequired) ==
  IF ~token.present /\ authRequired
    THEN unauthorizedError("Listing payments requires authentication")
    ELSE NoError

\* queryForTransactions(a.db, log, "user_id = ?", userID): the ids of the rows
TransactionsOfUser(userID) ==
  {transactions[k].ID :
     k \in {j \in DOMAIN transactions : transactions[j].UserID = userID}}

\* Preload("Transactions") of an order: the ids of the rows
TransactionsOfOrder(orderID) ==
  {transactions[k].ID :
     k \in {j \in DOMAIN transactions : transactions[j].OrderID = orderID}}

\* queryForTransactions(query, log, "", ""): the ids of all the rows
AllTransactions == {transactions[k].ID : k \in DOMAIN transactions}

\* PaymentListForUser without the comparison of the caller with the user
PaymentListForAnyUserOutcome(token, userID) ==
  IF initEndpoint(token, TRUE) # NoError
    THEN Answer(initEndpoint(token, TRUE), {}, FALSE)
  ELSE Answer(OKResponse, TransactionsOfUser(userID), TRUE)

\* PaymentListForUser: GET /users/:user_id/payments
PaymentListForUserOutcome(token, userID) ==
  IF initEndpoint(token, TRUE) # NoError
    THEN Answer(initEndpoint(token, TRUE), {}, FALSE)
  ELSE IF userID # token.ID /\ ~isAdmin(token)
    THEN Answer(unauthorizedError("Can't access payments for this user"), {}, FALSE)
  ELSE Answer(OKResponse, TransactionsOfUser(userID), TRUE)

\* PaymentListForOrder that loads the order before it asks for the identity
PaymentListForOrderQueryFirst(token, orderID) ==
  IF orderID \notin OrderIDs
    THEN Answer(notFoundError("Order not found"), {}, TRUE)
  ELSE IF initEndpoint(token, TRUE) # NoError
    THEN Answer(initEndpoint(token, TRUE), {}, TRUE)
  ELSE IF orders[orderID].UserID # token.ID /\ ~isAdmin(token)
    THEN Answer(unauthorizedError("Anonymous orders must be accessed by admins"), {}, TRUE)
  ELSE Answer(OKResponse, TransactionsOfOrder(orderID), TRUE)

\* PaymentListForOrder: GET /orders/:order_id/payments
PaymentListForOrderOutcome(token, orderID) ==
  IF initEndpoint(token, TRUE) # NoError
    THEN Answer(initEndpoint(token, TRUE), {}, FALSE)
  ELSE IF orderID \notin OrderIDs
    THEN Answer(notFoundError("Order not found"), {}, TRUE)
  ELSE IF orders[orderID].UserID = "" /\ ~isAdmin(token)
    THEN Answer(unauthorizedError("Anonymous orders must be accessed by admins"), {}, TRUE)
  ELSE IF orders[orderID].UserID # token.ID /\ ~isAdmin(token)
    THEN Answer(unauthorizedError("Anonymous orders must be accessed by admins"), {}, TRUE)
  ELSE Answer(OKResponse, TransactionsOfOrder(orderID), TRUE)

\* PaymentList: GET /payments, without query parameters
PaymentListOutcome(token) ==
  IF requireAdmin(token)
    THEN Answer(unauthorizedError("Can only access payments as admin"), {}, FALSE)
  ELSE Answer(OKResponse, AllTransactions, TRUE)

\* PaymentView: GET /payments/:pay_id
PaymentViewOutcome(token, payID) ==
  IF requireAdmin(token)
    THEN Answer(unauthorizedError("Can only access payments as admin"), {}, FALSE)
  ELSE IF FindTransaction(payID) = NoTransaction
    THEN Answer(notFoundError("Transaction not found"), {}, TRUE)
  ELSE Answer(OKResponse, {payID}, TRUE)

\* OrderList: GET /orders, with the user_id filter or without ("")
OrderListOutcome(token, userID) ==
  IF ~token.present
    THEN Answer(unauthorizedError("You must be logged in to view orders"), {}, FALSE)
  ELSE IF userID # "" /\ ~isAdmin(token)
    THEN Answer(badRequestError("Can't query for user id as non-admin"), {}, FALSE)
  ELSE Answer(OKResponse, {}, TRUE)

\* OrderView: GET /orders/:id
OrderViewOutcome(token, orderID) ==
  IF ~token.present
    THEN Answer(unauthorizedError("You must be logged in to view an order"), {}, FALSE)
  ELSE IF orderID \notin OrderIDs
    THEN Answer(notFoundError("Order not found"), {}, TRUE)
  ELSE IF orders[orderID].UserID # token.ID /\ ~isAdmin(token)
    THEN Answer(unauthorizedError("You don't have access to this order"), {}, TRUE)
  ELSE Answer(OKResponse, {}, TRUE)

\* the answer to a request on a read-only endpoint: that of the middleware,
\* or that of the handler `out` run with the identity of the token
Answered(kind, c, target, out) ==
  IF c.halted
    THEN Response(kind, c.resp, NoTransaction, FALSE, FALSE)
    ELSE [Response(kind, out.resp, NoTransaction, FALSE, FALSE)
            EXCEPT !.caller = c.token, !.target = target, !.rows = out.rows,
                   !.read = out.read]

\* a read-only request arrives.  Its handler reads committed rows only and
\* takes no lock, so its answer is the one it gives between the payment
\* requests: it is taken while no payment request is in flight
ReadArrives ==
  /\ nreq < MaxRequests
  /\ \A i \in Slots : slots[i].pc = "idle"

\* the request is answered with `r`
Serve(r) ==
  /\ nreq' = nreq + 1
  /\ last' = r
  /\ UNCHANGED <<orders, transactions, hooks, provider, rowLock, slots, nextID,
                 config, mailer>>

PaymentListForUser ==
  /\ ReadArrives
  /\ \E r \in {Answered("listUser", withToken(h), u,
                        PaymentListForUserOutcome(withToken(h).token, u)) :
                 h \in Headers, u \in UserIDs} : Serve(r)

PaymentListForOrder ==
  /\ ReadArrives
  /\ \E r \in {Answered("listOrder", withToken(h), o,
                        PaymentListForOrderOutcome(withToken(h).token, o)) :
                 h \in Headers, o \in OrderIDs \cup {MissingOrder}} : Serve(r)

PaymentList ==
  /\ ReadArrives
  /\ \E r \in {Answered("list", withToken(h), "",
                        PaymentListOutcome(withToken(h).token)) :
                 h \in Headers} : Serve(r)

PaymentView ==
  /\ ReadArrives
  /\ \E r \in {Answered("view", withToken(h), payID,
                        PaymentViewOutcome(withToken(h).token, payID)) :
                 h \in Headers, payID \in 1..nextID} : Serve(r)

OrderList ==
  /\ ReadArrives
  /\ \E r \in {Answered("orders", withToken(h), u,
                        OrderListOutcome(withToken(h).token, u)) :
                 h \in Headers, u \in UserIDs \cup {""}} : Serve(r)

OrderView ==
  /\ ReadArrives
  /\ \E r \in {Answered("order", withToken(h), o,
                        OrderViewOutcome(withToken(h).token, o)) :
                 h \in Headers, o \in OrderIDs \cup {MissingOrder}} : Serve(r)

AccessNext ==
  \/ Next
  \/ PaymentListForUser
  \/ PaymentListForOrder
  \/ PaymentList
  \/ PaymentView
  \/ OrderList
  \/ OrderView

AccessSpec == Init /\ [][AccessNext]_vars

(***************************************************************************)
(* OrderUpdate: POST /orders/:id.  The handler is as the specification and *)
(* the tests of api/order_test.go describe it: the caller is the owner of  *)
(* the order or an administrator, and the currency and the billing address *)
(* of a paid order cannot be set.                                          *)
(***************************************************************************)
\* the body of an update: "" where a field is absent
OrderParams ==
  [Currency : {""} \cup Currencies, BillingAddressID : {"", "addr1", "addr2"}]

\* an update that lets the fields of a paid order be set
PaidOrderFrozenNever(order, params) == FALSE

\* the update sets a field that is fixed once the order is paid
PaidOrderFrozen(order, params) ==
  /\ order.PaymentState = PaidState
  /\ (params.Currency # "" \/ params.BillingAddressID # "")

\* the order with the fields of the body set
UpdatedOrder(order, params) ==
  [order EXCEPT
     !.Currency = IF params.Currency # "" THEN params.Currency ELSE @,
     !.BillingAddressID =
        IF params.BillingAddressID # "" THEN params.BillingAddressID ELSE @]

\* the response of the handler and the order it stores
UpdateOutcome(params, token, orderID) ==
  LET order == orders[orderID] IN
  IF ~token.present \/ (order.UserID # token.ID /\ ~isAdmin(token))
    THEN [resp |-> unauthorizedError("You don't have permission to update this order"),
          order |-> order]
  ELSE IF PaidOrderFrozen(order, params)
    THEN [resp |-> badRequestError("Can't update the order after payment has been processed"),
          order |-> order]
  ELSE [resp |-> OKResponse, order |-> UpdatedOrder(order, params)]

\* one update request, from decoding to the response; the UPDATE of the
\* order row waits for its lock
OrderUpdate ==
  /\ nreq < MaxRequests
  /\ \E out \in {UpdateOutcome(params, token, orderID) :
                   params \in OrderParams, token \in Tokens,
                   orderID \in OrderIDs} :
       /\ out.resp = OKResponse => rowLock[out.order.ID] = 0
       /\ orders' = [orders EXCEPT ![out.order.ID] = out.order]
       /\ nreq' = IF out.resp = OKResponse THEN nreq + 1 ELSE nreq
       /\ last' = Response("update", out.resp, NoTransaction, FALSE,
                           out.resp = OKResponse)
  /\ UNCHANGED <<transactions, hooks, provider, rowLock, slots, nextID, config,
                 mailer>>

OrderNext == Next \/ OrderUpdate

OrderSpec == Init /\ [][OrderNext]_vars

(***************************************************************************)
(* Properties.                                                             *)
(***************************************************************************)
ChargesOf(o) ==
  {k \in DOMAIN transactions :
     transactions[k].OrderID = o /\ transactions[k].Type = ChargeTransactionType}

\* the committed row with the identifier of `tr` is `tr`
Persisted(tr) ==
  \E k \in DOMAIN transactions : transactions[k] = tr

\* the successful charges the gateways made for order `o`
SuccessfulCharges(o) ==
  {k \in DOMAIN provider :
     provider[k].op = "charge" /\ provider[k].order = o /\ provider[k].ok}

\* C1: in every committed state an order is paid if and only if it has a
\* charge transaction whose status is paid.
C1_PaidIffPaidCharge ==
  \A o \in OrderIDs :
    (orders[o].PaymentState = PaidState)
      <=> (\E k \in ChargesOf(o) : transactions[k].Status = PaidState)

\* C2: a payment whose charge the provider accepted with reference R answers
\* with a transaction that is persisted, has status paid and processor id R,
\* and leaves the order paid.
C2_SuccessfulChargeIsPaid ==
  (last.kind = "create" /\ last.code = 200) =>
    /\ Persisted(last.tr)
    /\ last.tr.Status = PaidState
    /\ \E k \in SuccessfulCharges(last.tr.OrderID) :
         provider[k].ref = last.tr.ProcessorID
    /\ orders[last.tr.OrderID].PaymentState = PaidState

\* C3: whatever the interleaving of the requests, the provider's charge
\* succeeds at most once for an order.
C3_ChargedAtMostOnce ==
  \A o \in OrderIDs : Cardinality(SuccessfulCharges(o)) <= 1

\* the step neither changes the committed store nor calls a provider
StoreUntouched == UNCHANGED <<orders, transactions, hooks, provider>>

\* PaymentCreate followed through the save of a claimed order: the locals at
\* its first return or at the call of the charger
CreateOutcome(params, token, orderID) ==
  LET s == CreateBegin(params, token, orderID) IN
  IF s.pc = "claim" THEN CreateClaim(s) ELSE s

AmountMessage == "We failed to authorize the amount for this order"
AlreadyPaidMessage == "This order has already been paid"
RefundBalanceMessage == "The balance of the refund must be between 0 and the total amount"

\* the checks of PaymentCreate that come before the amount check all pass
ReachesAmountCheck(params, token, orderID) ==
  /\ CredentialsError(params) = ""
  /\ orders[orderID].PaymentState # PaidState
  /\ orders[orderID].Currency = params.Currency
  /\ ~NotOwner(orders[orderID], token)

C4_Refused ==
  \A params \in PaymentParams, token \in Tokens, orderID \in OrderIDs :
    params.Amount # orders[orderID].Total =>
      LET s == CreateOutcome(params, token, orderID) IN
      /\ s.pc = "reject"
      /\ ReachesAmountCheck(params, token, orderID) =>
           s.resp = internalServerError(AmountMessage)

C4_NeverCharged ==
  /\ \A k \in DOMAIN provider :
       provider[k].op = "charge" =>
         provider[k].amount = orders[provider[k].order].Total
  /\ \A i \in Slots :
       (slots[i].kind = "create" /\ slots[i].pc \in {"charge", "record"}) =>
         slots[i].params.Amount = orders[slots[i].order.ID].Total

C4_NoEffect ==
  (last'.kind = "create" /\ last'.msg = AmountMessage) =>
    /\ StoreUntouched
    /\ last'.code = 500

\* C4: a payment request whose amount differs from the total of the order
\* is answered with a server error, its amount never reaches a provider, and
\* the step that refuses it leaves orders and transactions as they were.
C4_AmountMismatchRefused ==
  /\ [](C4_Refused /\ C4_NeverCharged)
  /\ [][C4_NoEffect]_vars

C4_Witness ==
  /\ last.kind = "create"
  /\ last.code = 500
  /\ last.msg = AmountMessage
  /\ ~last.called

C5_Refused ==
  \A params \in PaymentParams, token \in Tokens, orderID \in OrderIDs :
    orders[orderID].PaymentState = PaidState =>
      LET s == CreateBegin(params, token, orderID) IN
      /\ s.pc = "reject"
      /\ CredentialsError(params) = "" =>
           s.resp = badRequestError(AlreadyPaidMessage)

C5_NoEffect ==
  (last'.kind = "create" /\ last'.msg = AlreadyPaidMessage) =>
    /\ StoreUntouched
    /\ last'.code = 400

\* C5: a payment request for an order that is already paid is refused with
\* the already-paid error, and the step that refuses it creates no
\* transaction and calls no provider.
C5_AlreadyPaidRefused ==
  /\ []C5_Refused
  /\ [][C5_NoEffect]_vars

C5_Witness ==
  /\ last.kind = "create"
  /\ last.code = 400
  /\ last.msg = AlreadyPaidMessage
  /\ ~last.called

RECURSIVE SumAmounts(_, _)
\* the sum of the amounts of the provider calls at the positions `ks`
SumAmounts(log, ks) ==
  IF ks = {} THEN 0
  ELSE LET k == CHOOSE x \in ks : TRUE IN
       log[k].amount + SumAmounts(log, ks \ {k})

\* the refunds the gateway made of the charge with reference `ref`
SuccessfulRefunds(ref) ==
  {k \in DOMAIN provider :
     provider[k].op = "refund" /\ provider[k].id = ref /\ provider[k].ok}

\* C6: the refunds made of a charge never sum to more than the amount of
\* the charge, so of two refunds that sum to more the second is rejected.
C6_RefundsWithinCharge ==
  \A k \in DOMAIN transactions :
    transactions[k].Type = ChargeTransactionType =>
      SumAmounts(provider, SuccessfulRefunds(transactions[k].ProcessorID))
        <= transactions[k].Amount

C7_Refused ==
  \A params \in RefundParams, token \in Tokens, k \in DOMAIN transactions :
    LET trans == transactions[k] IN
    (params.Amount = 0 \/ params.Amount > trans.Amount) =>
      LET s == RefundBegin(params, token, trans.ID) IN
      /\ s.pc = "reject"
      /\ AdminGroupName \in token.Groups =>
           /\ s.resp.code = 400
           /\ trans.Currency = params.Currency =>
                s.resp = badRequestError(RefundBalanceMessage)

C7_NeverRefunded ==
  /\ \A i \in Slots :
       slots[i].kind = "refund" /\ slots[i].pc # "idle" =>
         /\ slots[i].params.Amount > 0
         /\ slots[i].params.Amount <= slots[i].src.Amount
  /\ \A k \in DOMAIN provider :
       provider[k].op = "refund" =>
         \E j \in DOMAIN transactions :
           /\ transactions[j].ProcessorID = provider[k].id
           /\ provider[k].amount > 0
           /\ provider[k].amount <= transactions[j].Amount

C7_NoEffect ==
  (last'.kind = "refund" /\ last'.msg = RefundBalanceMessage) =>
    /\ StoreUntouched
    /\ last'.code = 400

\* C7: a refund whose amount is zero or greater than the amount of the
\* transaction it names is refused as an invalid request; such an amount
\* never reaches the provider and the step that refuses it creates no
\* transaction.
C7_RefundAmountRefused ==
  /\ [](C7_Refused /\ C7_NeverRefunded)
  /\ [][C7_NoEffect]_vars

C7_Witness ==
  /\ last.kind = "refund"
  /\ last.code = 400
  /\ last.msg = RefundBalanceMessage
  /\ ~last.called

\* the caller has no identity, or an identity without the admin group
NotAdministrator(token) ==
  ~token.present \/ AdminGroupName \notin token.Groups

C8_Refused ==
  \A params \in RefundParams, token \in Tokens, payID \in 0..(nextID - 1) :
    NotAdministrator(token) =>
      LET s == RefundBegin(params, token, payID) IN
      /\ s.pc = "reject"
      /\ s.resp.code = 401
      /\ s.tx = NoTx

C8_NoEffect ==
  (last'.kind = "refund" /\ last'.code = 401) => StoreUntouched

\* C8: a refund asked by a caller who is not an administrator is refused
\* for every transaction, before the handler opens a persistence
\* transaction, writes to the store or calls the provider.
C8_RefundNeedsAdmin ==
  /\ []C8_Refused
  /\ [][C8_NoEffect]_vars

C8_Witness ==
  /\ last.kind = "refund"
  /\ last.code = 401
  /\ ~last.called
  /\ provider = <<>>

\* slot `i` ends a payment whose charge the provider refused
ChargeFailureEnds(i) ==
  /\ slots[i].kind = "create"
  /\ slots[i].pc = "record"
  /\ slots[i].err # ""
  /\ slots'[i].pc = "idle"

C9_Step ==
  \A i \in Slots :
    ChargeFailureEnds(i) =>
      /\ Len(transactions') = Len(transactions) + 1
      /\ SubSeq(transactions', 1, Len(transactions)) = transactions
      /\ LET row == transactions'[Len(transactions')] IN
           /\ row.OrderID = slots[i].order.ID
           /\ row.Type = ChargeTransactionType
           /\ row.Amount = slots[i].params.Amount
           /\ row.Status = FailedState
           /\ row.FailureCode # ""
           /\ row.FailureDescription # ""
      /\ orders'[slots[i].order.ID].PaymentState = PaidState =>
           orders[slots[i].order.ID].PaymentState = PaidState
      /\ last'.kind = "create"
      /\ last'.code = 500

C10_RecordBeforeCharge ==
  \A i \in Slots :
    (slots[i].kind = "create" /\ slots[i].pc = "record") =>
      \E k \in DOMAIN slots[i].tx.trans :
        /\ slots[i].tx.trans[k].ID = slots[i].tr.ID
        /\ slots[i].tx.trans[k].Status = PendingState

\* C11: with a payment webhook target configured, every commit of a charge
\* transaction, of a successful charge and of a failed one alike, carries a
\* payment webhook record for the order.
C11_HookWithEveryCharge ==
  (last.kind = "create" /\ last.called /\ config.Webhooks.Payment # "") =>
    /\ Persisted(last.tr)
    /\ \E k \in DOMAIN hooks :
         hooks[k].Event = "payment" /\ hooks[k].OrderID = last.tr.OrderID

\* the payments whose mail goroutine was started
Mailed == mailer.queue \cup mailer.errors

C12_AfterCommit ==
  \A id \in Mailed :
    \E k \in DOMAIN transactions :
      /\ transactions[k].ID = id
      /\ transactions[k].Type = ChargeTransactionType
      /\ transactions[k].Status # FailedState

C12_MailStep ==
  (mailer'.queue # mailer.queue /\ mailer'.queue \subseteq mailer.queue) =>
    /\ UNCHANGED <<orders, transactions, hooks, provider, slots>>
    /\ last' = NoResponse

\* C12: the mails of a payment are dispatched only once its charge
\* transaction is committed, and the mail step, whether its mails fail or
\* not, changes neither the committed orders and transactions nor any
\* handler, and writes no response.
C12_MailsAfterCommit ==
  /\ []C12_AfterCommit
  /\ [][C12_MailStep]_vars

C12_Witness ==
  \E id \in mailer.errors :
    \E k \in DOMAIN transactions :
      /\ transactions[k].ID = id
      /\ orders[transactions[k].OrderID].PaymentState = PaidState

\* C13: an order that is paid never returns to pending, whatever payment
\* and refund requests run, failed ones included.
C13_PaidStaysPaid ==
  [][\A o \in OrderIDs :
       orders[o].PaymentState = PaidState => orders'[o].PaymentState = PaidState]_vars

C14_Refused ==
  \A params \in OrderParams, token \in Tokens, orderID \in OrderIDs :
    (/\ orders[orderID].PaymentState = PaidState
     /\ (params.Currency # "" \/ params.BillingAddressID # "")) =>
      LET out == UpdateOutcome(params, token, orderID) IN
      /\ out.resp.code \in {400, 401}
      /\ out.order = orders[orderID]
      /\ (token.present /\ (token.ID = orders[orderID].UserID
                            \/ AdminGroupName \in token.Groups)) =>
           out.resp.code = 400

C14_NoEffect ==
  (last'.kind = "update" /\ last'.code # 200) => UNCHANGED orders

\* C14: an update that sets the currency or the billing address of a paid
\* order is refused, with a 400 for a caller allowed to update the order,
\* and the stored order stays as it was.
C14_PaidOrderFrozen ==
  /\ []C14_Refused
  /\ [][C14_NoEffect]_vars

C14_Witness ==
  /\ last.kind = "update"
  /\ last.code = 400
  /\ \E o \in OrderIDs : orders[o].PaymentState = PaidState

C15_Settled ==
  \A k \in DOMAIN transactions :
    transactions[k].Status \in {PaidState, FailedState}

C15_Fixed ==
  \A k \in DOMAIN transactions :
    /\ k \in DOMAIN transactions'
    /\ transactions'[k].ID = transactions[k].ID
    /\ transactions'[k].Amount = transactions[k].Amount
    /\ transactions'[k].Currency = transactions[k].Currency
    /\ transactions[k].Status \in {PaidState, FailedState} =>
         transactions'[k].Status = transactions[k].Status

\* C15: a committed transaction keeps its amount and currency, a status of
\* paid or failed never changes again, and no transaction is committed
\* pending once the provider call it records has returned (the handlers
\* commit a transaction only after that call).
C15_TransactionSettlesOnce ==
  /\ []C15_Settled
  /\ [][C15_Fixed]_vars

NotPaidMessage == "Can't refund a transaction that hasn't been paid"
PaypalRefundMessage == "Can't refund a paypal transaction"

\* the source of a refund is missing, of another currency, failed or not paid
SourceUnfit(params, trans) ==
  \/ trans = NoTransaction
  \/ trans.Currency # params.Currency
  \/ trans.FailureCode # ""
  \/ trans.Status # PaidState

C16_Refused ==
  \A params \in RefundParams, token \in Tokens, payID \in 0..(nextID - 1) :
    SourceUnfit(params, FindTransaction(payID)) =>
      LET s == RefundBegin(params, token, payID) IN
      /\ s.pc = "reject"
      /\ s.tx = NoTx

C16_Called ==
  /\ \A i \in Slots :
       (slots[i].kind = "refund" /\ slots[i].pc \in {"refund", "record"}) =>
         /\ Persisted(slots[i].src)
         /\ ~SourceUnfit(slots[i].params, slots[i].src)
  /\ \A k \in DOMAIN provider :
       provider[k].op = "refund" =>
         \E j \in DOMAIN transactions :
           /\ transactions[j].ProcessorID = provider[k].id
           /\ transactions[j].Currency = provider[k].currency
           /\ transactions[j].FailureCode = ""
           /\ transactions[j].Status = PaidState

C16_NoEffect ==
  (last'.kind = "refund" /\ ~last'.called) => StoreUntouched

\* C16: the refund of the provider is called only for a source transaction
\* that exists, has the currency of the request, carries no failure code
\* and is paid; any other request is rejected with no refund transaction
\* created.
C16_RefundPreconditions ==
  /\ [](C16_Refused /\ C16_Called)
  /\ [][C16_NoEffect]_vars

C16_Witness ==
  /\ last.kind = "refund"
  /\ last.code = 400
  /\ last.msg = NotPaidMessage
  /\ ~last.called

\* the checks of PaymentRefund that come before the processor check all pass
ReachesProcessorCheck(params, token, trans) ==
  /\ AdminGroupName \in token.Groups
  /\ ~SourceUnfit(params, trans)
  /\ params.Amount > 0
  /\ params.Amount <= trans.Amount

C17_Refused ==
  \A params \in RefundParams, token \in Tokens, k \in DOMAIN transactions :
    LET trans == transactions[k] IN
    orders[trans.OrderID].PaymentProcessor = "paypal" =>
      LET s == RefundBegin(params, token, trans.ID) IN
      /\ s.pc = "reject"
      /\ s.tx = NoTx
      /\ ReachesProcessorCheck(params, token, trans) =>
           s.resp = badRequestError(PaypalRefundMessage)

C17_NeverRefunded ==
  \A i \in Slots :
    (slots[i].kind = "refund" /\ slots[i].pc # "idle") =>
      slots[i].order.PaymentProcessor # "paypal"

C17_NoEffect ==
  (last'.kind = "refund" /\ last'.msg = PaypalRefundMessage) =>
    /\ StoreUntouched
    /\ last'.code = 400

\* C17: a refund of a transaction whose order was paid through the wallet
\* gateway is rejected, with the paypal refusal once the earlier checks
\* pass; no refund transaction is created and the provider is not called.
C17_PaypalRefundRefused ==
  /\ [](C17_Refused /\ C17_NeverRefunded)
  /\ [][C17_NoEffect]_vars

C17_Witness ==
  /\ last.kind = "refund"
  /\ last.code = 400
  /\ last.msg = PaypalRefundMessage
  /\ ~last.called

C18_CreatedPending ==
  \A i \in Slots :
    (slots[i].kind = "refund" /\ slots[i].pc \in {"refund", "record"}) =>
      /\ slots[i].tx.begun
      /\ Len(slots[i].tx.trans) = 1
      /\ LET row == slots[i].tx.trans[1] IN
           /\ row.ID = slots[i].tr.ID
           /\ row.Type = RefundTransactionType
           /\ row.Status = PendingState
           /\ row.Amount = slots[i].params.Amount
           /\ row.Currency = slots[i].params.Currency
      /\ ~Persisted(slots[i].tx.trans[1])

\* slot `i` ends a refund whose provider call has returned
RefundEnds(i) ==
  /\ slots[i].kind = "refund"
  /\ slots[i].pc = "record"
  /\ slots'[i].pc = "idle"

C18_Step ==
  \A i \in Slots :
    RefundEnds(i) =>
      /\ Len(transactions') = Len(transactions) + 1
      /\ SubSeq(transactions', 1, Len(transactions)) = transactions
      /\ LET row == transactions'[Len(transactions')] IN
           /\ row.ID = slots[i].tr.ID
           /\ row.Type = RefundTransactionType
           /\ row.Amount = slots[i].params.Amount
           /\ slots[i].err = "" =>
                /\ row.Status = PaidState
                /\ row.ProcessorID = slots[i].processorID
                /\ row.ProcessorID # NoRef
                /\ row.FailureCode = ""
           /\ slots[i].err # "" =>
                /\ row.Status = FailedState
                /\ row.FailureCode # ""
                /\ row.FailureDescription = slots[i].err
      /\ IF config.Webhooks.Refund # ""
           THEN /\ Len(hooks') = Len(hooks) + 1
                /\ SubSeq(hooks', 1, Len(hooks)) = hooks
                /\ hooks'[Len(hooks')].Event = "refund"
                /\ hooks'[Len(hooks')].URL = config.Webhooks.Refund
                /\ hooks'[Len(hooks')].TransactionID = slots[i].tr.ID
           ELSE hooks' = hooks

\* C18: a refund that passed its checks has its refund transaction created
\* pending in its persistence transaction before the provider is called;
\* when the call returns the transaction is committed paid with the
\* reference of the provider, or failed with code and description, together
\* with a refund webhook record when a target is configured.
C18_RefundRecorded ==
  /\ []C18_CreatedPending
  /\ [][C18_Step]_vars

C18_Witness ==
  /\ last.kind = "refund"
  /\ last.called
  /\ last.tr.Status = FailedState
  /\ last.tr.FailureCode # ""
  /\ Persisted(last.tr)
  /\ config.Webhooks.Refund # ""
  /\ \E k \in DOMAIN hooks : hooks[k].Event = "refund"

\* C19: a request whose provider call failed has committed a failed
\* transaction and answers with a server-side failure, never with a
\* success.
C19_ProviderFailureSurfaced ==
  (last.called /\ last.tr.FailureCode # "") =>
    /\ Persisted(last.tr)
    /\ last.tr.Status = FailedState
    /\ last.code >= 500

\* the response is a validation or an authorization error
ErrorResponse(r) ==
  /\ r.kind \in {"create", "refund"}
  /\ ~r.called
  /\ r.code \in {400, 401} \/ r.msg = AmountMessage

\* C20: a validation or authorization error of a payment or refund request
\* is answered before the handler has begun a persistence transaction.
C20_ErrorsBeforeBegin ==
  ErrorResponse(last) => ~last.begun

CredentialsMessages ==
  {"Payments requires a stripe_token",
   "Payments requires a stripe_token or a paypal_payment_id and paypal_user_id pair"}

C20_Begun ==
  ErrorResponse(last) =>
    (last.begun <=> (last.kind = "create" /\ last.msg \notin CredentialsMessages))

C20_NoLockLeft ==
  \A i \in Slots : slots[i].pc = "idle" => \A o \in OrderIDs : rowLock[o] # i

C20_NoEffect ==
  ErrorResponse(last') =>
    /\ StoreUntouched
    /\ UNCHANGED mailer

\* C20 as amended: a validation or authorization error causes no side
\* effect; PaymentRefund detects every one of them before it begins its
\* persistence transaction, PaymentCreate only the missing credentials, and
\* rolls its transaction back on the others.
C20_ErrorsWithoutEffect ==
  /\ [](C20_Begun /\ C20_NoLockLeft)
  /\ [][C20_NoEffect]_vars

C20_Witness ==
  /\ last.kind = "create"
  /\ last.code = 401
  /\ last.begun
  /\ ~last.called

C21_NoTrace ==
  (last'.kind = "create" /\ last'.begun /\ ~last'.called) =>
    /\ UNCHANGED <<orders, transactions, hooks, mailer>>
    /\ \A i \in Slots : slots'[i].pc = "idle" =>
         \A o \in OrderIDs : rowLock'[o] # i

C21_OwnerNotPersisted ==
  \A i \in Slots :
    (slots[i].pc = "claim" /\ slots'[i].pc = "idle") =>
      /\ last'.saved
      /\ slots[i].order.UserID # ""
      /\ orders'[slots[i].order.ID] = orders[slots[i].order.ID]

\* C21: a PaymentCreate that fails a precondition after its persistence
\* transaction was opened (order missing, already paid, currency mismatch,
\* ownership failure, amount mismatch) is rolled back entirely: the store is
\* as before the request, the owner assignment made inside the transaction
\* is not persisted, and no transaction record survives.
C21_RolledBackEntirely == [][C21_NoTrace /\ C21_OwnerNotPersisted]_vars

C21_Witness ==
  /\ last.kind = "create"
  /\ last.msg = AmountMessage
  /\ last.begun
  /\ last.saved
  /\ \E o \in OrderIDs : orders[o].UserID = "" /\ orders[o].PaymentState = PendingState

\* the first precondition of a payment request that fails, in the order
\* credentials, order existence, not paid, currency, ownership, amount
FirstFailure(params, token, orderID) ==
  IF /\ params.StripeToken = ""
     /\ ~config.paypal \/ params.PaypalID = "" \/ params.PaypalUserID = ""
    THEN "credentials"
  ELSE IF orderID \notin OrderIDs THEN "order"
  ELSE IF orders[orderID].PaymentState = PaidState THEN "paid"
  ELSE IF orders[orderID].Currency # params.Currency THEN "currency"
  ELSE IF /\ orders[orderID].UserID # ""
          /\ ~token.present \/ token.ID # orders[orderID].UserID
    THEN "owner"
  ELSE IF orders[orderID].Total # params.Amount THEN "amount"
  ELSE "none"

\* the error each failed precondition is answered with
PreconditionError(failure, r) ==
  CASE failure = "credentials" -> r.code = 400 /\ r.msg \in CredentialsMessages
    [] failure = "order" -> r.code = 404
    [] failure = "paid" -> r.code = 400 /\ r.msg = AlreadyPaidMessage
    [] failure = "currency" -> r.code = 400 /\ r.msg = "Currencies doesn't match"
    [] failure = "owner" -> r.code = 401
    [] failure = "amount" -> r.code = 500 /\ r.msg = AmountMessage
    [] OTHER -> FALSE

\* a thread is free to take a request
RequestCanArrive ==
  /\ nreq < MaxRequests
  /\ \E i \in Slots : slots[i].pc = "idle"

C22_Earliest ==
  RequestCanArrive =>
    \A params \in PaymentParams, token \in Tokens,
       orderID \in OrderIDs \cup {MissingOrder} :
      LET s == CreateOutcome(params, token, orderID)
          failure == FirstFailure(params, token, orderID) IN
        IF failure = "none"
          THEN s.pc = "charge"
          ELSE s.pc = "reject" /\ PreconditionError(failure, s.resp)

C22_NoCall ==
  (last'.kind = "create" /\ ~last'.called) => UNCHANGED provider

\* C22: PaymentCreate checks its preconditions in the order credentials,
\* order existence, order not paid, currency match, ownership, amount equal
\* to the order total; the error of the earliest one that fails is answered
\* and the provider is not called.
C22_PreconditionOrder ==
  /\ []C22_Earliest
  /\ [][C22_NoCall]_vars

C22_Witness ==
  /\ last.kind = "create"
  /\ last.msg = AlreadyPaidMessage
  /\ ~last.called
  /\ \E params \in PaymentParams, token \in Tokens, orderID \in OrderIDs :
       /\ orders[orderID].PaymentState = PaidState
       /\ orders[orderID].Currency # params.Currency
       /\ orders[orderID].Total # params.Amount
       /\ NotOwner(orders[orderID], token)
       /\ CreateOutcome(params, token, orderID).resp.msg = AlreadyPaidMessage

\* the checks of PaymentCreate that come before the ownership check pass
ReachesOwnerCheck(params, orderID) ==
  /\ CredentialsError(params) = ""
  /\ ~AlreadyPaid(orders[orderID])
  /\ ~CurrencyMismatch(orders[orderID], params)

\* the request went past the ownership check
PastOwnerCheck(s) ==
  \/ s.pc = "charge"
  \/ s.pc = "reject" /\ s.resp.msg = AmountMessage

C23_Gate ==
  RequestCanArrive =>
    \A params \in PaymentParams, token \in Tokens, orderID \in OrderIDs :
      ReachesOwnerCheck(params, orderID) =>
        LET owner == orders[orderID].UserID
            s == CreateBegin(params, token, orderID) IN
          IF owner # ""
            THEN IF token.present /\ token.ID = owner
                   THEN /\ PastOwnerCheck(s)
                        /\ ~s.tx.orderSaved
                        /\ s.pc = "charge" => s.order.UserID = owner
                   ELSE s.pc = "reject" /\ s.resp.code = 401
          ELSE IF token.present
            THEN /\ s.pc = "claim"
                 /\ s.order.UserID = token.ID
                 /\ LET c == CreateClaim(s) IN
                      /\ PastOwnerCheck(c)
                      /\ c.tx.orderSaved
                      /\ c.tx.order.UserID = token.ID
                      /\ c.pc = "charge" => c.order.UserID = token.ID
          ELSE /\ PastOwnerCheck(s)
               /\ ~s.tx.orderSaved
               /\ s.pc = "charge" => s.order.UserID = ""

\* the commit of a payment request writes the owner the request holds: the
\* caller who claimed the order, or the owner the request found
C23_Commit ==
  \A i \in Slots :
    (slots[i].kind = "create" /\ slots[i].pc = "record" /\ slots'[i].pc = "idle") =>
      LET s == slots[i] IN
        IF s.tx.orderSaved \/ s.err = ""
          THEN orders'[s.order.ID].UserID = s.order.UserID
          ELSE orders' = orders

\* C23: the ownership gate of PaymentCreate. An owned order is paid only by
\* its authenticated owner, every other caller gets 401; an unowned order
\* paid by an authenticated caller is owned by that caller once the request
\* commits; an unowned order paid without identity proceeds and stays
\* unowned.
C23_OwnershipGate ==
  /\ []C23_Gate
  /\ [][C23_Commit]_vars

C23_Witness ==
  /\ last.kind = "create"
  /\ last.called
  /\ \E o \in OrderIDs : orders[o].UserID = "adm"

\* the request carries no card token, and no wallet provider is configured
\* or one of the two wallet fields is missing
NoCredentials(params) ==
  /\ params.StripeToken = ""
  /\ \/ ~config.paypal
     \/ params.PaypalID = ""
     \/ params.PaypalUserID = ""

C24_Exactly ==
  RequestCanArrive =>
    \A params \in PaymentParams, token \in Tokens,
       orderID \in OrderIDs \cup {MissingOrder} :
      LET s == CreateBegin(params, token, orderID) IN
        /\ NoCredentials(params) <=>
             (s.pc = "reject" /\ s.resp.code = 400 /\ ~s.tx.begun)
        /\ NoCredentials(params) => s.order = NoOrder
        /\ ~NoCredentials(params) => s.tx.begun

C24_BeforeStore ==
  (last'.kind = "create" /\ ~last'.begun) =>
    /\ last'.code = 400
    /\ last'.msg \in CredentialsMessages
    /\ StoreUntouched
    /\ UNCHANGED rowLock

PaymentFits(payment, amount, currency) ==
  /\ ~payment.getErr
  /\ payment.ntrans = 1
  /\ payment.hasAmount
  /\ payment.Total = FormatAmount(amount)
  /\ payment.Currency = currency

Executed(res) ==
  \E k \in 1..Len(res.calls) : res.calls[k] = "ExecuteApprovedPayment"

C25_Charge(payment, amount, currency) ==
  LET res == paypalCharge(payment, amount, currency, NextRef) IN
    /\ Executed(res) <=> PaymentFits(payment, amount, currency)
    /\ Executed(res) =>
         /\ res.calls[1] = "GetPayment"
         /\ res.calls[Len(res.calls)] = "ExecuteApprovedPayment"
    /\ ~PaymentFits(payment, amount, currency) => res.err # "" /\ res.id = NoRef
    /\ res.err = "" => Executed(res) /\ res.id = NextRef

\* C25: the wallet provider's charge executes the payment only after it has
\* fetched it and found exactly one transaction whose amount and currency
\* equal the requested ones; in every other case it returns an error and
\* never executes the payment.
C25_PaypalExecutesVerified ==
  \A i \in Slots :
    (slots[i].pc = "charge" /\ slots[i].chType = PaypalChargerType) =>
      \A payment \in PaypalPayments :
        C25_Charge(payment, slots[i].params.Amount, slots[i].params.Currency)

C25_Witness ==
  /\ \E k \in 1..Len(provider) :
       /\ provider[k].chType = PaypalChargerType
       /\ provider[k].op = "charge"
       /\ provider[k].ok
  /\ \E k \in 1..Len(provider) :
       /\ provider[k].chType = PaypalChargerType
       /\ provider[k].op = "charge"
       /\ ~provider[k].ok

\* the caller carries an identity with the administrator group
Administrator(token) ==
  token.present /\ AdminGroupName \in token.Groups

\* the answer `r` sends transactions, or the empty list of them
Discloses(r) == r.code = 200

C26_ByUser ==
  (last.kind = "listUser" /\ Discloses(last)) =>
    /\ Administrator(last.caller)
         \/ (last.caller.present /\ last.caller.ID = last.target)
    /\ \A k \in DOMAIN transactions :
         transactions[k].ID \in last.rows <=> transactions[k].UserID = last.target

C26_ByOrder ==
  (last.kind = "listOrder" /\ Discloses(last)) =>
    /\ Administrator(last.caller)
         \/ /\ last.caller.present
            /\ orders[last.target].UserID # ""
            /\ orders[last.target].UserID = last.caller.ID
    /\ \A k \in DOMAIN transactions :
         transactions[k].ID \in last.rows <=> transactions[k].OrderID = last.target

C26_AdminOnly ==
  (last.kind \in {"list", "view"} /\ Discloses(last)) =>
    Administrator(last.caller)

C26_NothingElse ==
  (last.kind \in {"listUser", "listOrder", "list", "view"} /\ ~Discloses(last)) =>
    last.rows = {}

\* C26: transactions are disclosed to a caller only if the caller is an
\* administrator or the authenticated owner of the resource: the list of a
\* user's payments to the caller whose id is that user id, the list of an
\* order's payments to the caller whose id is the non-empty owner of the
\* order, the list of all payments and the view of one to administrators.
C26_DisclosedToOwnerOrAdmin ==
  /\ C26_ByUser
  /\ C26_ByOrder
  /\ C26_AdminOnly
  /\ C26_NothingElse

C26_Witness ==
  /\ last.kind = "listOrder"
  /\ Discloses(last)
  /\ last.rows # {}
  /\ ~Administrator(last.caller)
  /\ last.caller.ID = orders[last.target].UserID

\* the payment endpoints that only read
PaymentReads == {"listUser", "listOrder", "list", "view"}

\* the answer refuses the caller: it is neither the resource nor its absence
Refusal(r) == r.code \notin {200, 404}

\* the status the payment endpoints report a missing identity with
MissingIdentityStatus == initEndpoint(NoToken, TRUE).code

Entitled(r) ==
  \/ Administrator(r.caller)
  \/ r.kind = "listUser" /\ r.caller.present /\ r.caller.ID = r.target
  \/ /\ r.kind = "listOrder"
     /\ r.caller.present
     /\ r.target \in OrderIDs
     /\ orders[r.target].UserID # ""
     /\ orders[r.target].UserID = r.caller.ID

AdminMessage == "Can only access payments as admin"

C27_MissingIdentity ==
  (last.kind \in PaymentReads /\ ~last.caller.present) =>
    /\ last.code = 401
    /\ last.kind \in {"listUser", "listOrder"} =>
         last.msg \in {"Listing payments requires authentication",
                       "Bad authentication header", "Invalid token",
                       "Token expired"}
    /\ last.kind \in {"list", "view"} =>
         last.msg \in {AdminMessage, "Bad authentication header",
                       "Invalid token", "Token expired"}

C27_NotEntitled ==
  (last.kind \in PaymentReads /\ last.caller.present /\ ~Entitled(last)) =>
    /\ last.kind = "listUser" =>
         last.code = 401 /\ last.msg = "Can't access payments for this user"
    /\ last.kind = "listOrder" =>
         \/ last.code = 404 /\ last.target \notin OrderIDs
         \/ last.code = 401 /\ last.msg = "Anonymous orders must be accessed by admins"
    /\ last.kind \in {"list", "view"} =>
         last.code = 401 /\ last.msg = AdminMessage

C27_Refund ==
  RequestCanArrive =>
    \A params \in RefundParams, payID \in 1..nextID, token \in Tokens :
      ~Administrator(token) =>
        LET s == RefundBegin(params, token, payID) IN
          /\ s.pc = "reject"
          /\ s.resp = HTTPError(401, AdminMessage)

ValidIdentity(h) ==
  /\ h.auth = "Bearer"
  /\ h.alg = "HS256"
  /\ h.signed
  /\ h.exp = "future"

C28_Flag ==
  \A h \in Headers :
    LET c == withToken(h) IN
      /\ (~c.halted /\ isAdmin(c.token)) <=>
           (ValidIdentity(h) /\ AdminGroupName \in h.claims.Groups)
      /\ h.auth = "" => (~c.halted /\ ~isAdmin(c.token))
      /\ ~ValidIdentity(h) => ~c.token.present
      /\ c.halted <=> (h.auth # "" /\ ~ValidIdentity(h))

C28_AdminOnly ==
  (last.kind \in {"list", "view"} /\ last.code # 401) =>
    /\ last.caller.present
    /\ AdminGroupName \in last.caller.Groups

C28_Treated ==
  (last.kind \in {"list", "view"} /\ ~last.caller.present) => last.code = 401

\* C28: a request is treated as administrator exactly when it carries a
\* valid identity whose groups include the configured administrator group
\* name; a request without identity is never administrator.
C28_AdministratorIffGroup ==
  /\ ReadArrives => C28_Flag
  /\ C28_AdminOnly
  /\ C28_Treated
  /\ \A token \in Tokens :
       isAdmin(token) <=> (token.present /\ AdminGroupName \in token.Groups)

C28_Witness ==
  /\ last.kind = "view"
  /\ last.code = 200
  /\ last.rows # {}
  /\ AdminGroupName \in last.caller.Groups

\* the answer is the 401 of a handler or middleware that has not queried
\* the store
RefusedUnread(r) ==
  /\ r.code = 401
  /\ ~r.read
  /\ r.rows = {}

C29_Payments ==
  (last.kind \in {"listUser", "listOrder"} /\ ~last.caller.present) =>
    RefusedUnread(last)

C29_Orders ==
  (last.kind \in {"orders", "order"} /\ ~last.caller.present) =>
    RefusedUnread(last)

C29_EveryTarget ==
  ReadArrives =>
    /\ \A u \in UserIDs :
         LET out == PaymentListForUserOutcome(NoToken, u) IN
           out.resp.code = 401 /\ ~out.read
    /\ \A o \in OrderIDs \cup {MissingOrder} :
         LET out == PaymentListForOrderOutcome(NoToken, o) IN
           out.resp.code = 401 /\ ~out.read

\* C29: the endpoints that require authentication (the listings of payments
\* for a user and for an order, the list and the view of orders) reject a
\* request without identity with 401 before any access to the store.
C29_IdentityBeforeStore ==
  /\ C29_Payments
  /\ C29_Orders
  /\ C29_EveryTarget

C29_Witness ==
  /\ last.kind = "listOrder"
  /\ last.code = 401
  /\ ~last.caller.present
  /\ ~last.read
  /\ last.msg = "Listing payments requires authentication"

\* the process crashes while request i holds the reference of a successful
\* charge and has not yet committed
CrashAfterCharge(i) ==
  /\ slots[i].kind = "create"
  /\ slots[i].pc = "record"
  /\ slots[i].err = ""
  /\ slots'[i].pc = "idle"
  /\ last' = NoResponse

\* the money of the attempt of request i is taken at the provider
MoneyTaken(i) ==
  \E k \in DOMAIN provider' :
    /\ provider'[k].op = "charge"
    /\ provider'[k].ok
    /\ provider'[k].ref = slots[i].processorID
    /\ provider'[k].order = slots[i].order.ID

\* the store holds no transaction of the attempt of request i
NoRecordOfAttempt(i) ==
  \A k \in DOMAIN transactions' :
    /\ transactions'[k].ID # slots[i].tr.ID
    /\ transactions'[k].ProcessorID # slots[i].processorID

\* the crash leaves nothing of the attempt in the store: no transaction of
\* it, and the order row as it was
CrashLeavesNoRecord ==
  [][\A i \in Slots :
       CrashAfterCharge(i) =>
         /\ MoneyTaken(i)
         /\ NoRecordOfAttempt(i)
         /\ UNCHANGED <<orders, transactions, hooks>>]_vars

\* C30: when the process crashes after the provider's charge has succeeded
\* and before the persistence transaction commits, the money is taken at
\* the provider while the store holds no transaction of that attempt and
\* the order is still pending.
C30_CrashLosesCharge ==
  [][\A i \in Slots :
       CrashAfterCharge(i) =>
         /\ MoneyTaken(i)
         /\ NoRecordOfAttempt(i)
         /\ orders'[slots[i].order.ID].PaymentState = PendingState]_vars

\* C31: PaymentRefund proceeds to the provider only when the source
\* transaction is a charge: a transaction of type refund is never the source
\* of a refund.
C31_SourceIsCharge ==
  \A i \in Slots :
    (slots[i].kind = "refund" /\ slots[i].pc = "refund") =>
      slots[i].src.Type = ChargeTransactionType

\* the row is the charge of a PaymentCreate whose card charge succeeded
SuccessfulCardCharge(row) ==
  /\ row.Type = ChargeTransactionType
  /\ row.FailureCode = ""
  /\ \E k \in DOMAIN provider :
       /\ provider[k].op = "charge"
       /\ provider[k].chType = StripeChargerType
       /\ provider[k].ok
       /\ provider[k].ref = row.ProcessorID

\* C32: the charge transaction of a successful card PaymentCreate is
\* refundable: a PaymentRefund by an administrator on it, with the same
\* currency and an amount from 1 to the amount of the charge, passes every
\* precondition and reaches the refund call of the provider.
C32_ChargeIsRefundable ==
  RequestCanArrive =>
    \A k \in DOMAIN transactions :
      SuccessfulCardCharge(transactions[k]) =>
        \A params \in RefundParams, token \in Tokens :
          (/\ isAdmin(token)
           /\ params.Currency = transactions[k].Currency
           /\ params.Amount \in 1..transactions[k].Amount) =>
            RefundBegin(params, token, transactions[k].ID).pc = "refund"

\* the processor name the handler writes to the order for a charger
ProcessorName(chType) ==
  IF chType = StripeChargerType THEN "stripe"
  ELSE IF chType = PaypalChargerType THEN "paypal"
  ELSE ""

C33_Selected ==
  RequestCanArrive =>
    \A params \in PaymentParams, token \in Tokens, orderID \in OrderIDs :
      LET s == CreateOutcome(params, token, orderID) IN
        s.pc = "charge" =>
          /\ s.chType \in {StripeChargerType, PaypalChargerType}
          /\ s.chType = StripeChargerType <=> params.StripeToken # ""
          /\ s.chType = PaypalChargerType <=>
               (params.StripeToken = "" /\ config.paypal /\ params.PaypalID # "")
          /\ s.chType = StripeChargerType => s.paymentToken = params.StripeToken
          /\ s.chType = PaypalChargerType =>
               /\ s.paymentToken = params.PaypalID
               /\ s.paymentUser = params.PaypalUserID
          /\ s.order.PaymentProcessor = ProcessorName(s.chType)

C33_Charged ==
  \A i \in Slots :
    (slots[i].pc = "charge" /\ slots'[i].pc = "record") =>
      /\ Len(provider') = Len(provider) + 1
      /\ provider'[Len(provider')].op = "charge"
      /\ provider'[Len(provider')].chType = slots[i].chType

C33_Stored ==
  \A i \in Slots :
    (/\ slots[i].kind = "create"
     /\ slots[i].pc = "record"
     /\ slots[i].err = ""
     /\ slots'[i].pc = "idle") =>
      /\ orders'[slots[i].order.ID].PaymentProcessor = ProcessorName(slots[i].chType)
      /\ orders'[slots[i].order.ID].PaymentProcessor \in {"stripe", "paypal"}

\* C33: the handler selects the provider from the credential fields alone: a
\* request with a card token is charged by the card provider even when it
\* has wallet fields too; the wallet provider is charged only when the card
\* token is empty, the wallet provider is configured and the wallet payment
\* id is present; after a successful charge the processor name stored on
\* the order is that of the provider that was charged.
C33_ProviderFromCredentials ==
  /\ []C33_Selected
  /\ [][C33_Charged /\ C33_Stored]_vars

C33_Witness ==
  /\ last.kind = "create"
  /\ last.code = 200
  /\ orders[last.tr.OrderID].PaymentProcessor = "paypal"
  /\ \E k \in DOMAIN provider :
       /\ provider[k].chType = PaypalChargerType
       /\ provider[k].ok
       /\ provider[k].ref = last.tr.ProcessorID

\* the row is a charge of order o that has not failed and carries the
\* reference of a successful charge of o at a provider
ChargeBehindPaid(row, o, log) ==
  /\ row.OrderID = o
  /\ row.Type = ChargeTransactionType
  /\ row.Status # FailedState
  /\ row.FailureCode = ""
  /\ row.ProcessorID # NoRef
  /\ \/ row.ProcessorID[1] = "seed"
     \/ \E k \in DOMAIN log :
          /\ log[k].op = "charge"
          /\ log[k].ok
          /\ log[k].order = o
          /\ log[k].ref = row.ProcessorID

C34_Holds ==
  \A o \in OrderIDs :
    orders[o].PaymentState = PaidState =>
      \E k \in DOMAIN transactions : ChargeBehindPaid(transactions[k], o, provider)

C34_SameCommit ==
  \A o \in OrderIDs :
    (orders[o].PaymentState # PaidState /\ orders'[o].PaymentState = PaidState) =>
      /\ Len(transactions') = Len(transactions) + 1
      /\ SubSeq(transactions', 1, Len(transactions)) = transactions
      /\ ChargeBehindPaid(transactions'[Len(transactions')], o, provider')
      /\ transactions'[Len(transactions')].ProcessorID[1] = "ref"

\* C34: in every committed state an order that PaymentCreate has set to paid
\* has a charge transaction of that order that is not failed and carries the
\* reference the provider returned for the charge, and that transaction was
\* committed together with the paid state of the order.
C34_PaidHasCharge ==
  /\ []C34_Holds
  /\ [][C34_SameCommit]_vars

C34_Witness ==
  /\ last.kind = "create"
  /\ last.code = 200
  /\ orders[last.tr.OrderID].PaymentState = PaidState
  /\ Persisted(last.tr)
  /\ last.tr.ProcessorID # NoRef

\* request i calls the charger in this step
CallsCharger(i) ==
  /\ slots[i].kind = "create"
  /\ slots[i].pc = "charge"
  /\ slots'[i].pc = "record"

C35_Step ==
  \A i \in Slots :
    CallsCharger(i) =>
      /\ Len(provider') = Len(provider) + 1
      /\ LET call == provider'[Len(provider')] IN
           /\ call.op = "charge"
           /\ call.order = slots[i].order.ID
           /\ call.amount = slots[i].order.Total
           /\ call.currency = slots[i].order.Currency
      /\ slots[i].tx.begun

\* the order a request holds is the row it read: only the owner it claimed
\* and the processor it selected differ from a row the store has held
C35_AsRead ==
  RequestCanArrive =>
    \A params \in PaymentParams, token \in Tokens, orderID \in OrderIDs :
      LET s == CreateOutcome(params, token, orderID) IN
        s.pc = "charge" =>
          /\ s.order.Total = orders[orderID].Total
          /\ s.order.Currency = orders[orderID].Currency
          /\ s.params.Amount = params.Amount
          /\ s.params.Currency = params.Currency

\* C35: every call of the provider's charge by PaymentCreate is made with an
\* amount equal to the total of the order and a currency equal to the
\* currency of the order, as read inside the same persistence transaction.
C35_ChargedAsOrdered ==
  /\ []C35_AsRead
  /\ [][C35_Step]_vars

C35_Witness ==
  \E i \in Slots :
    /\ slots[i].kind = "create"
    /\ slots[i].pc = "record"
    /\ Len(provider) > 0
    /\ provider[Len(provider)].op = "charge"
    /\ provider[Len(provider)].chType = PaypalChargerType
    /\ provider[Len(provider)].amount = slots[i].order.Total
    /\ provider[Len(provider)].currency = slots[i].order.Currency

\* the charges of order o that have failed, and those that have not
FailedCharges(o) ==
  {k \in DOMAIN transactions :
     /\ transactions[k].OrderID = o
     /\ transactions[k].Type = ChargeTransactionType
     /\ transactions[k].Status = FailedState}

LiveCharges(o) ==
  {k \in DOMAIN transactions :
     /\ transactions[k].OrderID = o
     /\ transactions[k].Type = ChargeTransactionType
     /\ transactions[k].Status # FailedState}

\* a payment request for the stored order o with valid inputs
ValidPayment(params, token, o) ==
  /\ params.StripeToken # ""
       \/ (config.paypal /\ params.PaypalID # "" /\ params.PaypalUserID # "")
  /\ params.Amount = orders[o].Total
  /\ params.Currency = orders[o].Currency
  /\ orders[o].UserID = "" \/ (token.present /\ token.ID = orders[o].UserID)

C36_StillPayable ==
  RequestCanArrive =>
    \A o \in OrderIDs :
      (FailedCharges(o) # {} /\ LiveCharges(o) = {}) =>
        /\ orders[o].PaymentState = PendingState
        /\ \A params \in PaymentParams, token \in Tokens :
             ValidPayment(params, token, o) =>
               CreateOutcome(params, token, o).pc = "charge"

C36_SuccessPays ==
  \A i \in Slots :
    (/\ slots[i].kind = "create"
     /\ slots[i].pc = "record"
     /\ slots[i].err = ""
     /\ slots'[i].pc = "idle") =>
      orders'[slots[i].order.ID].PaymentState = PaidState

C36_OneLiveCharge ==
  \A o \in OrderIDs : Cardinality(LiveCharges(o)) <= 1

\* C36: after a PaymentCreate whose charge failed the order can still be
\* paid: a later PaymentCreate on the order with valid inputs reaches the
\* provider and, when the provider succeeds, sets the order to paid; with
\* the requests handled one at a time an order never has more than one
\* charge transaction that is not failed, however many failed ones it has.
C36_PayableAfterFailure ==
  /\ [](C36_StillPayable /\ C36_OneLiveCharge)
  /\ [][C36_SuccessPays]_vars

C36_Witness ==
  \E o \in OrderIDs :
    /\ orders[o].PaymentState = PaidState
    /\ FailedCharges(o) # {}
    /\ LiveCharges(o) # {}
    /\ last.kind = "create"
    /\ last.code = 200

\* request i is a PaymentCreate that commits an order it claimed
CommitsClaim(i, o) ==
  /\ slots[i].kind = "create"
  /\ slots[i].pc = "record"
  /\ slots'[i].pc = "idle"
  /\ slots[i].tx.orderSaved
  /\ slots[i].order.ID = o

\* C37: the owner of an order changes only from empty to the subject of
\* the authenticated caller of a PaymentCreate that commits; an owner that
\* is not empty is never changed by PaymentCreate or PaymentRefund.
C37_OwnerAssignedOnce ==
  [][\A o \in OrderIDs :
       orders'[o].UserID # orders[o].UserID =>
         /\ orders[o].UserID = ""
         /\ \E i \in Slots :
              CommitsClaim(i, o) /\ orders'[o].UserID = slots[i].order.UserID]_vars

\* the step is a step of a PaymentRefund request: its arrival, its call of
\* the provider, or its answer
RefundStep ==
  \/ last'.kind = "refund"
  \/ \E i \in Slots :
       /\ slots'[i] # slots[i]
       /\ slots[i].kind = "refund" \/ slots'[i].kind = "refund"

\* the stored rows stay as they are and `added` rows follow them
KeepsRows(old, new, added) ==
  /\ Len(new) = Len(old) + added
  /\ \A k \in DOMAIN old : new[k] = old[k]

C38_Orders == orders' = orders

C38_Rows ==
  \/ KeepsRows(transactions, transactions', 0)
  \/ /\ KeepsRows(transactions, transactions', 1)
     /\ \E i \in Slots :
          LET m == transactions'[Len(transactions')]
              s == slots[i] IN
          /\ s.kind = "refund"
          /\ s.pc = "record"
          /\ m.Type = RefundTransactionType
          /\ m.Amount = s.params.Amount
          /\ \E k \in DOMAIN transactions :
               /\ transactions[k].ID = s.src.ID
               /\ m.OrderID = transactions[k].OrderID
               /\ m.UserID = transactions[k].UserID

C38_Hooks ==
  \/ KeepsRows(hooks, hooks', 0)
  \/ /\ KeepsRows(hooks, hooks', 1)
     /\ KeepsRows(transactions, transactions', 1)
     /\ hooks'[Len(hooks')].Event = "refund"

\* C38: PaymentRefund never modifies the order or the source transaction,
\* whatever its outcome: no step of a refund request changes an order or a
\* stored transaction, and the only rows it adds are one refund transaction,
\* with the order and user of its source and the requested amount, and one
\* webhook record.
C38_RefundFrame ==
  [][RefundStep => (C38_Orders /\ C38_Rows /\ C38_Hooks)]_vars

C38_Witness ==
  /\ last.kind = "refund"
  /\ last.code = 200
  /\ \E k, j \in DOMAIN transactions :
       /\ transactions[k] = last.tr
       /\ transactions[k].Type = RefundTransactionType
       /\ transactions[j].Type = ChargeTransactionType
       /\ transactions[j].OrderID = transactions[k].OrderID
       /\ transactions[k].Amount < transactions[j].Amount

\* request i is a PaymentCreate whose charge failed, at its commit
FailedChargeCommit(i) ==
  /\ slots[i].kind = "create"
  /\ slots[i].pc = "record"
  /\ slots[i].err # ""
  /\ slots'[i].pc = "idle"

C39_Order(i) ==
  \A o \in OrderIDs :
    /\ orders'[o].PaymentState = orders[o].PaymentState
    /\ orders'[o].PaymentProcessor = orders[o].PaymentProcessor
    /\ \/ orders'[o] = orders[o]
       \/ /\ o = slots[i].order.ID
          /\ orders[o].UserID = ""
          /\ orders'[o] = [orders[o] EXCEPT !.UserID = slots[i].order.UserID]

C39_Rows(i) ==
  /\ KeepsRows(transactions, transactions', 1)
  /\ transactions'[Len(transactions')].Type = ChargeTransactionType
  /\ transactions'[Len(transactions')].Status = FailedState
  /\ hooks' = hooks

\* C39: a PaymentCreate whose provider charge failed leaves the stored
\* PaymentState and processor name of the order unchanged; what it commits
\* is the failed charge transaction and, for an order that had no owner and
\* an authenticated caller, the owner.
C39_FailedChargeFrame ==
  [][\A i \in Slots : FailedChargeCommit(i) => (C39_Order(i) /\ C39_Rows(i))]_vars

====
